---- MODULE Spec2Model ----
(***************************************************************************)
(* Concurrent multi-provider streaming chat of main.py:                    *)
(* chat_all_providers fans one message out to one thread per provider,     *)
(* each thread (run_provider) pulls text chunks from its provider's chat   *)
(* generator and accumulates them in the shared dict provider_contents,    *)
(* the main thread builds the live display once, joins the threads and     *)
(* renders the final panels.                                               *)
(*                                                                         *)
(* Texts are TLA+ strings; \o is Python's str +.  Python's None is the     *)
(* value None below.  provider_contents[name] += chunk is a load of the    *)
(* dict entry followed by a store, two steps.                              *)
(***************************************************************************)
EXTENDS Naturals, Sequences, FiniteSets, TLC

\* ------------------------------------------------------------------ bounds
\* Largest number of chunks one vendor stream yields before it ends or fails.
MaxChunks == 2

\* Longest API key tried.
MaxKeyLen == 14

\* ------------------------------------------------------------ input values
\* Characters an API key is made of.
KeyChars == {"s", "k"}

\* The API keys tried: every text of at most MaxKeyLen characters.
ApiKeys == UNION {[1..len -> KeyChars] : len \in 0..MaxKeyLen}

None == "<None>"

\* main.py:204, the provider keys tried when no --provider is given.
ALL_PROVIDER_KEYS == <<"openai", "anthropic", "gemini">>

\* The name property of the three provider classes.
ProviderName(key) ==
    CASE key = "openai" -> "OpenAI"
      [] key = "anthropic" -> "Anthropic"
      [] key = "gemini" -> "Gemini"

Names == {ProviderName(ALL_PROVIDER_KEYS[i]) : i \in 1..Len(ALL_PROVIDER_KEYS)}

\* Values of --model / *_DEFAULT_MODEL that occur in the model.
ModelArgs == {None, "m1"}
EnvModels == {None, "env-m"}

\* Message of the ValueError raised by chat() when no model resolves.
NoModelMsg == "No model specified and no default model set"

\* Messages of the exceptions the vendor SDK call or stream may raise.
TransportMsgs == {"boom"}

\* What the vendors send: for each provider the text fragments of its
\* response, in order.  The aggregator never looks inside a chunk, so distinct
\* fragments stand for all texts; a response longer than its script repeats
\* it.  A response may end, or fail, after any number of fragments.
ScenarioScripts ==
    [n \in Names |->
        CASE n = "OpenAI" -> <<"Hel", "lo">>
          [] n = "Anthropic" -> <<"Hi", " there">>
          [] n = "Gemini" -> <<"Oops", "...">>]

\* The same, with a vendor whose generated text itself reads like an error.
EchoScripts ==
    [n \in Names |->
        CASE n = "OpenAI" -> <<"Error: boom", "!">>
          [] n = "Anthropic" -> <<"Hi", " there">>
          [] n = "Gemini" -> <<"Oops", "...">>]

ChunkAt(s, k) == s[((k - 1) % Len(s)) + 1]

\* ------------------------------------------------------------------- state
VARIABLES
    pc,                 \* position of the main thread in chat_all_providers
    model,              \* the model argument of chat_all_providers
    providers,          \* list of provider objects [name, default_model]
    provider_contents,  \* dict name -> accumulated text
    provider_done,      \* dict name -> bool
    provider_model,     \* dict name -> model label shown in the title
    threads,            \* list of started threads (by provider name)
    idx,                \* loop index of the main thread's current for loop
    panels,             \* panels built by update_display (the Live renderable)
    final_panels,       \* panels printed after the join
    exit_code,          \* None, or the argument of sys.exit as a string
    tpc,                \* name -> position of that provider's thread
    gen,                \* name -> state of the generator returned by chat()
    script,             \* name -> the fragments the vendor sends when asked
    sent,               \* name -> number of chunks the generator has yielded
    opened,             \* name -> the vendor streaming call has been issued
    chunk,              \* name -> run_provider's loop variable
    loaded,             \* name -> value of provider_contents[name] read by +=
    exc,                \* name -> message of the exception run_provider caught
    live,               \* what the Live region of the terminal last rendered
    cancel,             \* <<>>, or <<S>>: cancellation was asked with units S streaming
    api_key,            \* provider.api_key of display_provider_info, a list of characters
    masked              \* the text display_provider_info shows for the key

vars == <<pc, model, providers, provider_contents, provider_done, provider_model,
          threads, idx, panels, final_panels, exit_code,
          tpc, gen, script, sent, opened, chunk, loaded, exc, live, cancel,
          api_key, masked>>

threadVars == <<tpc, gen, script, sent, opened, chunk, loaded, exc>>

EmptyDict == [n \in {} |-> None]

\* d[k] = v of a Python dict
DictSet(d, k, v) ==
    IF k \in DOMAIN d THEN [d EXCEPT ![k] = v]
    ELSE [n \in (DOMAIN d) \cup {k} |-> IF n = k THEN v ELSE d[n]]

\* Python truthiness of an optional string
Truthy(s) == s # None /\ s # ""

\* a or b
Or(a, b) == IF Truthy(a) THEN a ELSE b

RECURSIVE SelectKeys(_, _)
\* main.py:206-216: the providers get_provider could construct, in order.
SelectKeys(keys, have) ==
    IF keys = <<>> THEN <<>>
    ELSE (IF Head(keys) \in have THEN <<Head(keys)>> ELSE <<>>)
         \o SelectKeys(Tail(keys), have)

\* main.py:89-105: the provider object; default_model is the argument
\* (chat_all_providers passes its model) or the environment's.
get_provider(key, default_model, env_model) ==
    [name |-> ProviderName(key), default_model |-> Or(default_model, env_model)]

\* main.py:204-216
BuildProviders(provider_name, have_key, m, env) ==
    LET provider_names == IF Truthy(provider_name) THEN <<provider_name>>
                          ELSE ALL_PROVIDER_KEYS
        keys == SelectKeys(provider_names, have_key)
    IN [i \in 1..Len(keys) |-> get_provider(keys[i], m, env[keys[i]])]

KeySet == {ALL_PROVIDER_KEYS[i] : i \in 1..Len(ALL_PROVIDER_KEYS)}

InitWith(scripts) ==
    /\ model \in ModelArgs
    /\ \E provider_name \in {None} \cup KeySet, have_key \in SUBSET KeySet,
          env \in [KeySet -> EnvModels] :
          providers = BuildProviders(provider_name, have_key, model, env)
    /\ pc = "check_providers"
    /\ provider_contents = EmptyDict
    /\ provider_done = EmptyDict
    /\ provider_model = EmptyDict
    /\ threads = <<>>
    /\ idx = 0
    /\ panels = <<>>
    /\ final_panels = <<>>
    /\ exit_code = None
    /\ tpc = [n \in Names |-> "unstarted"]
    /\ gen = [n \in Names |-> "none"]
    /\ script = scripts
    /\ sent = [n \in Names |-> 0]
    /\ opened = [n \in Names |-> FALSE]
    /\ chunk = [n \in Names |-> None]
    /\ loaded = [n \in Names |-> None]
    /\ exc = [n \in Names |-> None]
    /\ live = <<>>
    /\ cancel = <<>>
    /\ api_key = <<>>
    /\ masked = <<>>

Init == InitWith(ScenarioScripts)

InitEcho == InitWith(EchoScripts)

ProviderNames == {providers[i].name : i \in 1..Len(providers)}
ProviderOf(n) == CHOOSE p \in {providers[i] : i \in 1..Len(providers)} : p.name = n

\* ------------------------------------------------------------- main thread
\* Faulty variant: the error panel is printed but sys.exit is missing.
NoProvidersContinue ==
    /\ pc = "check_providers"
    /\ providers = <<>>
    /\ provider_contents' = EmptyDict
    /\ provider_done' = EmptyDict
    /\ provider_model' = EmptyDict
    /\ pc' = "start_threads"
    /\ idx' = 1
    /\ UNCHANGED <<model, providers, threads, panels, final_panels, exit_code, api_key, masked, live, cancel>>
    /\ UNCHANGED threadVars

\* main.py:218-224
NoProvidersExit ==
    /\ pc = "check_providers"
    /\ providers = <<>>
    /\ exit_code' = "1"
    /\ pc' = "exited"
    /\ UNCHANGED <<model, providers, provider_contents, provider_done, provider_model,
                   threads, idx, panels, final_panels, live, cancel,
                   api_key, masked>>
    /\ UNCHANGED threadVars

\* main.py:226-229
InitState ==
    /\ pc = "check_providers"
    /\ providers # <<>>
    /\ provider_contents' = [n \in ProviderNames |-> ""]
    /\ provider_done' = [n \in ProviderNames |-> FALSE]
    /\ provider_model' = [n \in ProviderNames |->
                            Or(model, Or(ProviderOf(n).default_model, "(default)"))]
    /\ pc' = "start_threads"
    /\ idx' = 1
    /\ UNCHANGED <<model, providers, threads, panels,
                   final_panels, exit_code, api_key, masked, live, cancel>>
    /\ UNCHANGED threadVars

\* main.py:259-263, one iteration: t.start(); threads.append(t).  The new
\* thread enters run_provider (main.py:249-251): content = "", and
\* provider.chat(...) returns a generator whose body has not started.
StartThread ==
    /\ pc = "start_threads"
    /\ idx <= Len(providers)
    /\ LET n == providers[idx].name IN
          /\ tpc' = [tpc EXCEPT ![n] = "for_next"]
          /\ gen' = [gen EXCEPT ![n] = "created"]
          /\ threads' = Append(threads, n)
    /\ idx' = idx + 1
    /\ UNCHANGED <<pc, model, providers, provider_contents, provider_done,
                   provider_model, panels, final_panels,
                   exit_code, api_key, masked, live, cancel>>
    /\ UNCHANGED <<script, sent, opened, chunk, loaded, exc>>

\* main.py:260 loop exhausted; main.py:266 begins evaluating update_display().
StartThreadsDone ==
    /\ pc = "start_threads"
    /\ idx > Len(providers)
    /\ pc' = "update_display"
    /\ idx' = 1
    /\ UNCHANGED <<model, providers, provider_contents, provider_done, provider_model,
                   threads, panels, final_panels, exit_code, api_key, masked, live, cancel>>
    /\ UNCHANGED threadVars

\* The panel of main.py:238-244 and of main.py:275-281 as the data it shows.
MakePanel(name, label, status, border, content) ==
    [name |-> name, model |-> label, status |-> status, border |-> border,
     content |-> content]

\* main.py:235
StatusText(done) == IF done THEN "(done)" ELSE "Generating..."
\* main.py:236
BorderStyle(done) == IF done THEN "green" ELSE "blue"

\* main.py:234-244, one iteration of update_display's loop: the reads of
\* provider_done, provider_model and provider_contents for one provider and
\* the panel appended.
UpdateDisplayPanel ==
    /\ pc = "update_display"
    /\ idx <= Len(providers)
    /\ LET n == providers[idx].name IN
          panels' = Append(panels, MakePanel(n, provider_model[n],
                                             StatusText(provider_done[n]),
                                             BorderStyle(provider_done[n]),
                                             provider_contents[n]))
    /\ idx' = idx + 1
    /\ UNCHANGED <<pc, model, providers, provider_contents, provider_done,
                   provider_model, threads, final_panels, exit_code, api_key, masked, live, cancel>>
    /\ UNCHANGED threadVars

\* main.py:245 and 266: update_display returns, Live starts and renders the
\* group a first time.
LiveEnter ==
    /\ pc = "update_display"
    /\ idx > Len(providers)
    /\ live' = panels
    /\ pc' = "join"
    /\ idx' = 1
    /\ UNCHANGED <<model, providers, provider_contents, provider_done, provider_model,
                   threads, panels, final_panels, exit_code, api_key, masked, cancel>>
    /\ UNCHANGED threadVars

\* main.py:266, refresh_per_second=10: while the with block runs, Live's
\* refresh thread renders its renderable again, ten times a second.  The
\* renderable is the Group that update_display() returned when the with
\* statement was evaluated; nothing in the with block calls update_display
\* or live.update again.
LiveRefresh ==
    /\ pc = "join"
    /\ live' = panels
    /\ UNCHANGED <<pc, model, providers, provider_contents, provider_done,
                   provider_model, threads, idx, panels, final_panels, exit_code, api_key, masked,
                   cancel>>
    /\ UNCHANGED threadVars

\* Faulty variant: a join that returns as soon as any thread has ended.
ThreadFinishedAny(n) == \E m \in Names : tpc[m] = "exited"

\* Faulty variant: a thread that ended in its except clause never counts as
\* finished.
ThreadFinishedIfNoError(n) == tpc[n] = "exited" /\ exc[n] = None

\* threading.Thread.join returns once the thread's target has returned.
ThreadFinished(n) == tpc[n] = "exited"

\* main.py:267-268, one iteration of the join loop.
Join ==
    /\ pc = "join"
    /\ idx <= Len(threads)
    /\ ThreadFinished(threads[idx])
    /\ idx' = idx + 1
    /\ UNCHANGED <<pc, model, providers, provider_contents, provider_done,
                   provider_model, threads, panels,
                   final_panels, exit_code, api_key, masked, live, cancel>>
    /\ UNCHANGED threadVars

\* main.py:266 the with block is left and Live stops after rendering its
\* renderable a last time (live keeps that last frame), main.py:271 clears the
\* console, main.py:272-282 build and print the final panels.
FinalDisplay ==
    /\ pc = "join"
    /\ idx > Len(threads)
    /\ final_panels' = [i \in 1..Len(providers) |->
                           LET n == providers[i].name IN
                           MakePanel(n, provider_model[n], "(done)", "green",
                                     provider_contents[n])]
    /\ live' = panels
    /\ panels' = <<>>
    /\ pc' = "returned"
    /\ UNCHANGED <<model, providers, provider_contents, provider_done, provider_model,
                   threads, idx, exit_code, api_key, masked, cancel>>
    /\ UNCHANGED threadVars

\* ---------------------------------------------------------- provider threads
\* A step that touches only a thread's own locals (the generator resuming,
\* the vendor's event arriving) is taken together with the thread's next access
\* to a shared dict; each access to provider_contents or provider_done is a step
\* of its own.

\* Faulty variant: the "(default)" label of the title is used as the model.
ResolvedModelOrLabel(n) ==
    Or(model, Or(ProviderOf(n).default_model, "(default)"))

\* The model chat() resolves: model = model or self.default_model
\* (openai_provider.py:65, anthropic_provider.py:66, gemini_provider.py:62);
\* run_provider passes chat_all_providers' model.
ResolvedModel(n) == Or(model, ProviderOf(n).default_model)

\* Faulty variant: the chunk is put in front of the accumulated text.
AppendChunkPrepend(old, c) == c \o old

\* Faulty variant: = instead of +=, the chunk replaces the accumulated text.
AppendChunkOverwrite(old, c) == c

\* provider_contents[provider.name] += chunk, the value stored.
AppendChunk(old, c) == old \o c

\* Faulty variant: the bare message, without the "Error: " marker.
ErrorTextBare(msg) == msg

\* f"Error: {str(e)}"
ErrorText(msg) == "Error: " \o msg

\* Faulty variant: run_provider uses the enclosing loop variable instead of
\* its argument, so every thread writes under the last provider's name.
ContentsKeyLast(n) == providers[Len(providers)].name

\* The dict key run_provider writes under: provider.name.
ContentsKey(n) == n

\* First next() of the generator: no model resolves, chat() raises ValueError
\* before any vendor call (openai_provider.py:65-67 and the same lines of the
\* other two providers); main.py:254-255 catches it and stores the error text.
NoModelFail(n) ==
    /\ tpc[n] = "for_next"
    /\ gen[n] = "created"
    /\ ~Truthy(ResolvedModel(n))
    /\ gen' = [gen EXCEPT ![n] = "closed"]
    /\ exc' = [exc EXCEPT ![n] = NoModelMsg]
    /\ provider_contents' = DictSet(provider_contents, ContentsKey(n),
                                    ErrorText(NoModelMsg))
    /\ tpc' = [tpc EXCEPT ![n] = "except_done"]
    /\ UNCHANGED <<script, sent, opened, chunk, loaded>>
    /\ UNCHANGED <<pc, model, providers, provider_done, provider_model, threads, idx,
                   panels, final_panels, exit_code, api_key, masked, live, cancel>>

\* First next(): the model resolves and the vendor's streaming call is issued
\* and accepted (openai_provider.py:75-80); the generator now waits for the
\* vendor's first event.
StreamOpen(n) ==
    /\ tpc[n] = "for_next"
    /\ gen[n] = "created"
    /\ Truthy(ResolvedModel(n))
    /\ opened' = [opened EXCEPT ![n] = TRUE]
    /\ gen' = [gen EXCEPT ![n] = "streaming"]
    /\ UNCHANGED <<tpc, script, sent, chunk, loaded, exc>>
    /\ UNCHANGED <<pc, model, providers, provider_contents, provider_done,
                   provider_model, threads, idx, panels,
                   final_panels, exit_code, api_key, masked, live, cancel>>

\* First next(): the vendor's streaming call is issued and raises;
\* main.py:254-255 stores the error text.
StreamOpenFail(n) ==
    /\ tpc[n] = "for_next"
    /\ gen[n] = "created"
    /\ Truthy(ResolvedModel(n))
    /\ opened' = [opened EXCEPT ![n] = TRUE]
    /\ gen' = [gen EXCEPT ![n] = "closed"]
    /\ \E msg \in TransportMsgs :
          /\ exc' = [exc EXCEPT ![n] = msg]
          /\ provider_contents' = DictSet(provider_contents, ContentsKey(n),
                                          ErrorText(msg))
    /\ tpc' = [tpc EXCEPT ![n] = "except_done"]
    /\ UNCHANGED <<script, sent, chunk, loaded>>
    /\ UNCHANGED <<pc, model, providers, provider_done, provider_model, threads, idx,
                   panels, final_panels, exit_code, api_key, masked, live, cancel>>

\* The vendor delivers a text fragment, the generator yields it
\* (openai_provider.py:82-88), main.py:251 binds it to chunk and main.py:252
\* reads provider_contents[provider.name], the first half of +=.
ReceiveChunk(n) ==
    /\ tpc[n] = "for_next"
    /\ gen[n] = "streaming"
    /\ sent[n] < MaxChunks
    /\ sent' = [sent EXCEPT ![n] = sent[n] + 1]
    /\ chunk' = [chunk EXCEPT ![n] = ChunkAt(script[n], sent[n] + 1)]
    /\ loaded' = [loaded EXCEPT ![n] = provider_contents[ContentsKey(n)]]
    /\ tpc' = [tpc EXCEPT ![n] = "store"]
    /\ UNCHANGED <<gen, script, opened, exc>>
    /\ UNCHANGED <<pc, model, providers, provider_contents, provider_done,
                   provider_model, threads, idx, panels,
                   final_panels, exit_code, api_key, masked, live, cancel>>

\* main.py:252, the second half of +=: the concatenation is stored.
StoreContents(n) ==
    /\ tpc[n] = "store"
    /\ provider_contents' = DictSet(provider_contents, ContentsKey(n),
                                    AppendChunk(loaded[n], chunk[n]))
    /\ loaded' = [loaded EXCEPT ![n] = None]
    /\ tpc' = [tpc EXCEPT ![n] = "for_next"]
    /\ UNCHANGED <<gen, script, sent, opened, chunk, exc>>
    /\ UNCHANGED <<pc, model, providers, provider_done, provider_model, threads, idx,
                   panels, final_panels, exit_code, api_key, masked, live, cancel>>

\* The vendor stream ends, the generator returns (openai_provider.py:89), the
\* for loop is left and main.py:253 sets the flag; run_provider returns.
StreamEnd(n) ==
    /\ tpc[n] = "for_next"
    /\ gen[n] = "streaming"
    /\ gen' = [gen EXCEPT ![n] = "closed"]
    /\ provider_done' = DictSet(provider_done, ContentsKey(n), TRUE)
    /\ tpc' = [tpc EXCEPT ![n] = "exited"]
    /\ UNCHANGED <<script, sent, opened, chunk, loaded, exc>>
    /\ UNCHANGED <<pc, model, providers, provider_contents, provider_model, threads,
                   idx, panels, final_panels, exit_code, api_key, masked, live, cancel>>

\* Faulty variant: the handler writes the error text into every provider's
\* entry.
StreamFailMarksAll(n) ==
    /\ tpc[n] = "for_next"
    /\ gen[n] = "streaming"
    /\ gen' = [gen EXCEPT ![n] = "closed"]
    /\ \E msg \in TransportMsgs :
          /\ exc' = [exc EXCEPT ![n] = msg]
          /\ provider_contents' = [m \in DOMAIN provider_contents |->
                                      "Error: " \o msg]
    /\ tpc' = [tpc EXCEPT ![n] = "except_done"]
    /\ UNCHANGED <<script, sent, opened, chunk, loaded>>
    /\ UNCHANGED <<pc, model, providers, provider_done, provider_model, threads, idx,
                   panels, final_panels, exit_code, api_key, masked, live, cancel>>

\* The vendor stream fails: the exception leaves the generator, is caught at
\* main.py:254 and main.py:255 stores the error text.
StreamFail(n) ==
    /\ tpc[n] = "for_next"
    /\ gen[n] = "streaming"
    /\ gen' = [gen EXCEPT ![n] = "closed"]
    /\ \E msg \in TransportMsgs :
          /\ exc' = [exc EXCEPT ![n] = msg]
          /\ provider_contents' = DictSet(provider_contents, ContentsKey(n),
                                          ErrorText(msg))
    /\ tpc' = [tpc EXCEPT ![n] = "except_done"]
    /\ UNCHANGED <<script, sent, opened, chunk, loaded>>
    /\ UNCHANGED <<pc, model, providers, provider_done, provider_model, threads, idx,
                   panels, final_panels, exit_code, api_key, masked, live, cancel>>

\* main.py:256, then run_provider returns and the thread ends.
ExceptDone(n) ==
    /\ tpc[n] = "except_done"
    /\ provider_done' = DictSet(provider_done, ContentsKey(n), TRUE)
    /\ tpc' = [tpc EXCEPT ![n] = "exited"]
    /\ UNCHANGED <<gen, script, sent, opened, chunk, loaded, exc>>
    /\ UNCHANGED <<pc, model, providers, provider_contents, provider_model, threads,
                   idx, panels, final_panels, exit_code, api_key, masked, live, cancel>>

\* One step of the thread of provider n.
Thread(n) ==
    \/ NoModelFail(n)
    \/ StreamOpen(n)
    \/ StreamOpenFail(n)
    \/ ReceiveChunk(n)
    \/ StoreContents(n)
    \/ StreamEnd(n)
    \/ StreamFail(n)
    \/ ExceptDone(n)

\* One step of the main thread.
Main ==
    \/ NoProvidersExit
    \/ InitState
    \/ StartThread
    \/ StartThreadsDone
    \/ UpdateDisplayPanel
    \/ LiveEnter
    \/ Join
    \/ FinalDisplay

Next == Main \/ (\E n \in Names : Thread(n)) \/ LiveRefresh

Spec == Init /\ [][Next]_vars

\* The vendor stream of provider n is open: chat() has issued the streaming
\* call and the generator has neither returned nor raised.
Streaming(n) == tpc[n] \in {"for_next", "store"} /\ gen[n] = "streaming"

\* The user asks for cancellation while the join loop of main.py:267-268
\* waits and some stream is still open.  chat_all_providers (main.py:201)
\* takes no cancellation token, and neither run_provider (main.py:247-256) nor
\* the join loop tests one: the request reaches no statement of the program,
\* so only the request itself is recorded, with the units it is addressed to.
RaiseCancel ==
    /\ pc = "join"
    /\ idx <= Len(threads)
    /\ cancel = <<>>
    /\ \E n \in ProviderNames : Streaming(n)
    /\ cancel' = <<{n \in ProviderNames : Streaming(n)}>>
    /\ UNCHANGED <<pc, model, providers, provider_contents, provider_done,
                   provider_model, threads, idx, panels, final_panels, exit_code, api_key, masked,
                   live>>
    /\ UNCHANGED threadVars

NextCancel == Next \/ RaiseCancel

\* The program with a user who may ask for cancellation during the join.
SpecCancel == Init /\ [][NextCancel]_vars

\* ------------------------------------------------- display_provider_info
\* c * n of Python for a one-character text c: n copies of c, none if n <= 0.
Repeat(c, n) == [i \in 1..n |-> c]

\* Faulty variant: the short-key test compares with the 8 characters shown
\* instead of 12.
mask_api_key_short8(key) ==
    IF Len(key) <= 8 THEN Repeat("*", Len(key))
    ELSE SubSeq(key, 1, 4) \o Repeat("*", Len(key) - 8)
         \o SubSeq(key, Len(key) - 3, Len(key))

\* main.py:28-32; in the else branch len(api_key) > 12, so api_key[:4] and
\* api_key[-4:] are the first and the last four characters.
mask_api_key(key) ==
    IF Len(key) <= 12 THEN Repeat("*", Len(key))
    ELSE SubSeq(key, 1, 4) \o Repeat("*", Len(key) - 8)
         \o SubSeq(key, Len(key) - 3, Len(key))

\* The list and validate commands (main.py:364-377): a provider is built from
\* an API key and display_provider_info is about to show it; no chat runs.
InitMask ==
    /\ api_key \in ApiKeys
    /\ masked = <<>>
    /\ pc = "display_provider_info"
    /\ model = None
    /\ providers = <<>>
    /\ provider_contents = EmptyDict
    /\ provider_done = EmptyDict
    /\ provider_model = EmptyDict
    /\ threads = <<>>
    /\ idx = 0
    /\ panels = <<>>
    /\ final_panels = <<>>
    /\ exit_code = None
    /\ tpc = [n \in Names |-> "unstarted"]
    /\ gen = [n \in Names |-> "none"]
    /\ script = ScenarioScripts
    /\ sent = [n \in Names |-> 0]
    /\ opened = [n \in Names |-> FALSE]
    /\ chunk = [n \in Names |-> None]
    /\ loaded = [n \in Names |-> None]
    /\ exc = [n \in Names |-> None]
    /\ live = <<>>
    /\ cancel = <<>>

\* main.py:42, the "API Key" row: Text(mask_api_key(provider.api_key)).
DisplayProviderInfo ==
    /\ pc = "display_provider_info"
    /\ masked' = mask_api_key(api_key)
    /\ pc' = "info_displayed"
    /\ UNCHANGED <<model, providers, provider_contents, provider_done, provider_model,
                   threads, idx, panels, final_panels, exit_code, live, cancel,
                   api_key>>
    /\ UNCHANGED threadVars

NextMask == DisplayProviderInfo

SpecMask == InitMask /\ [][NextMask]_vars

\* The same program against the vendor whose text reads like an error.
SpecEcho == InitEcho /\ [][Next]_vars

\* Every started thread keeps being scheduled and every vendor call returns
\* (with a fragment, the end of the stream or a failure); the main thread keeps
\* being scheduled.
FairSpec == Spec /\ WF_vars(Main) /\ \A n \in Names : WF_vars(Thread(n))

\* ------------------------------------------------------------ vocabulary
RECURSIVE ConcatFirst(_, _)
\* The concatenation of the first k texts of a sequence, in order.
ConcatFirst(seq, k) == IF k = 0 THEN "" ELSE ConcatFirst(seq, k - 1) \o seq[k]

\* The concatenation of a sequence of texts, in order.
Concat(seq) == ConcatFirst(seq, Len(seq))

\* The chunks provider n's stream has yielded so far, in arrival order.
Yielded(n) == [k \in 1..sent[n] |-> ChunkAt(script[n], k)]

\* For each script, the text made of its first k chunks, k = 0..MaxChunks.
PrefixText ==
    [s \in {ScenarioScripts[n] : n \in Names} \cup {EchoScripts[n] : n \in Names} |->
        [k \in 0..MaxChunks |-> Concat([j \in 1..k |-> ChunkAt(s, j)])]]

\* text is the concatenation of a whole-chunk prefix of what n's stream has
\* yielded.
IsPrefixText(n, text) == \E k \in 0..sent[n] : text = PrefixText[script[n]][k]

Started(n) == tpc[n] # "unstarted"
Exited(n) == tpc[n] = "exited"
Failed(n) == exc[n] # None
EndedNormally(n) == Exited(n) /\ ~Failed(n)

\* The join loop of main.py:267-268 has been left.
JoinReturned == (pc = "join" /\ idx > Len(threads)) \/ pc = "returned"

\* ------------------------------------------------------------------ claims

\* C1: the join returns only after every provider's thread has ended, and then
\* provider_contents and provider_done hold exactly one entry per provider,
\* with done = True for each of them.
C1_JoinWaitsForAll ==
    JoinReturned =>
        /\ providers # <<>>
        /\ Len(threads) = Len(providers)
        /\ Cardinality(ProviderNames) = Len(providers)
        /\ \A n \in ProviderNames : Exited(n)
        /\ DOMAIN provider_done = ProviderNames
        /\ DOMAIN provider_contents = ProviderNames
        /\ \A n \in ProviderNames : provider_done[n] = TRUE

\* Three providers joined, one of which failed and one of which streamed
\* MaxChunks chunks.
C1_Witness ==
    /\ JoinReturned
    /\ Len(providers) = 3
    /\ \E n \in ProviderNames : Failed(n)
    /\ \E n \in ProviderNames : EndedNormally(n) /\ sent[n] = MaxChunks

\* C2: when a provider's stream has ended normally, its accumulated text is
\* the concatenation, in arrival order, of every chunk its stream yielded.
C2_LosslessConcat ==
    \A n \in DOMAIN provider_contents :
        EndedNormally(n) => provider_contents[n] = Concat(Yielded(n))

\* A stream of two chunks ended normally while the two sibling threads were
\* running, one of them in the middle of its own +=.
C2_Witness ==
    /\ Len(providers) = 3
    /\ \E n \in ProviderNames :
          /\ EndedNormally(n)
          /\ sent[n] >= 2
          /\ provider_contents[n] = ChunkAt(script[n], 1) \o ChunkAt(script[n], 2)
          /\ \E m \in ProviderNames \ {n} : tpc[m] = "store"

\* A step by which provider n's failure is recorded: the step that catches the
\* exception and stores the error text, or the step that then sets the flag.
FailureStep(n) == exc'[n] # None /\ tpc'[n] # tpc[n]

\* C3 (first half): a step recording n's failure leaves every other
\* provider's text, flag, thread and stream as they were.
FailureLeavesOthers ==
    \A n \in Names :
        FailureStep(n) =>
            \A m \in (DOMAIN provider_contents) \ {n} :
                /\ provider_contents'[m] = provider_contents[m]
                /\ provider_done'[m] = provider_done[m]
                /\ tpc'[m] = tpc[m]
                /\ sent'[m] = sent[m]
                /\ exc'[m] = exc[m]

\* C3 (second half): once some provider has failed, every sibling thread
\* that has not ended can still take a step, and the main thread can take a
\* step unless it is done or is joining a thread that has not ended.
FailureBlocksNobody ==
    (\E n \in ProviderNames : Failed(n)) =>
        /\ \A m \in ProviderNames :
              (Started(m) /\ ~Exited(m)) => ENABLED Thread(m)
        /\ \/ pc \in {"returned", "exited"}
           \/ (pc = "join" /\ idx <= Len(threads) /\ ~Exited(threads[idx]))
           \/ ENABLED Main

\* C3: a failure of one provider's stream never changes another provider's
\* text or done flag and never blocks another provider's thread or the join.
C3_FailureIsolated == [][FailureLeavesOthers]_vars /\ []FailureBlocksNobody

\* Provider A has ended normally with its full text and still has it while
\* provider B, failed after a chunk, has stored its error text and is about to
\* set its flag.
C3_Witness ==
    \E a, b \in ProviderNames :
        /\ a # b
        /\ EndedNormally(a) /\ sent[a] = MaxChunks
        /\ provider_contents[a] = Concat(Yielded(a))
        /\ Failed(b) /\ tpc[b] = "except_done" /\ sent[b] >= 1

\* The streams of the scenario: OpenAI yields "Hel", "lo" and ends, Anthropic
\* yields "Hi" and ends, Gemini yields "Oops" and then fails with "boom"; all
\* three threads have been joined.
ScenarioRan ==
    /\ JoinReturned
    /\ Len(providers) = 3
    /\ EndedNormally("OpenAI") /\ Yielded("OpenAI") = <<"Hel", "lo">>
    /\ EndedNormally("Anthropic") /\ Yielded("Anthropic") = <<"Hi">>
    /\ Exited("Gemini") /\ exc["Gemini"] = "boom" /\ Yielded("Gemini") = <<"Oops">>

\* C4 as stated: a provider whose stream failed after chunks c1..ck ends with
\* the text c1..ck followed by the error marker, and in the scenario Gemini
\* ends with "Oops" followed by the marker.
C4_ErrorFollowsChunks ==
    /\ \A n \in ProviderNames :
          (Exited(n) /\ Failed(n)) =>
              /\ provider_contents[n] = Concat(Yielded(n)) \o ("Error: " \o exc[n])
              /\ provider_done[n]
    /\ ScenarioRan =>
          provider_contents = [n \in Names |->
              CASE n = "OpenAI" -> "Hello"
                [] n = "Anthropic" -> "Hi"
                [] n = "Gemini" -> "Oops" \o "Error: boom"]

\* C4 as amended: a provider whose stream failed after chunks c1..ck ends with
\* the error marker "Error: <message>" alone, the chunks being discarded, and
\* done; siblings whose streams ended normally end with their concatenation,
\* done and no error; in the scenario the final texts are "Hello", "Hi" and
\* "Error: boom".
C4_ErrorReplacesChunks ==
    /\ \A n \in DOMAIN provider_contents :
          Exited(n) =>
              /\ provider_done[n]
              /\ provider_contents[n] =
                    IF Failed(n) THEN "Error: " \o exc[n] ELSE Concat(Yielded(n))
    /\ ScenarioRan =>
          provider_contents = [n \in Names |->
              CASE n = "OpenAI" -> "Hello"
                [] n = "Anthropic" -> "Hi"
                [] n = "Gemini" -> "Error: boom"]

\* The scenario has run to the final display.
C4_Witness ==
    /\ ScenarioRan
    /\ pc = "returned"
    /\ Len(final_panels) = 3
    /\ final_panels[3].content = "Error: boom"

\* Neither the model argument nor the provider's default model is set.
NoModelConfigured(n) == ~Truthy(model) /\ ~Truthy(ProviderOf(n).default_model)

\* C5: a provider with no resolvable model never opens the vendor stream and
\* never appends a chunk; its text is empty until it becomes the error text,
\* and it ends done with that text.  Its siblings with a model are not
\* blocked, and end with the result of their own stream.
C5_NoModelFailsAlone ==
    \A i \in 1..Len(providers) :
        LET n == providers[i].name IN
        (~Truthy(model) /\ ~Truthy(providers[i].default_model)) =>
            /\ ~opened[n]
            /\ sent[n] = 0
            /\ gen[n] # "streaming"
            /\ tpc[n] # "store"
            /\ n \in DOMAIN provider_contents =>
                  /\ provider_contents[n] \in
                        {"", "Error: No model specified and no default model set"}
                  /\ provider_contents[n] # "" => exc[n] = NoModelMsg
                  /\ Exited(n) => provider_done[n] /\ provider_contents[n] # ""
            /\ \A m \in ProviderNames :
                  ~NoModelConfigured(m) =>
                      /\ (Started(m) /\ ~Exited(m)) => ENABLED Thread(m)
                      /\ EndedNormally(m) =>
                            provider_contents[m] = Concat(Yielded(m))

\* A provider without a model has ended with the error text, a sibling has
\* streamed MaxChunks chunks and ended normally, and the join has returned.
C5_Witness ==
    /\ JoinReturned
    /\ \E n, m \in ProviderNames :
          /\ NoModelConfigured(n) /\ Exited(n) /\ provider_done[n]
          /\ provider_contents[n] = ErrorText(NoModelMsg)
          /\ ~NoModelConfigured(m) /\ EndedNormally(m) /\ sent[m] = MaxChunks

\* C6: with no provider constructed, chat_all_providers only exits with
\* status 1: no dict is initialised, no thread is started, nothing is
\* displayed; and it exits with an error in no other case.
C6_NoProvidersFailsFirst ==
    /\ providers = <<>> =>
          /\ pc \in {"check_providers", "exited"}
          /\ pc = "check_providers" => ENABLED NoProvidersExit /\ ~ENABLED InitState
          /\ pc = "exited" => exit_code = "1"
          /\ provider_contents = EmptyDict
          /\ provider_done = EmptyDict
          /\ provider_model = EmptyDict
          /\ threads = <<>>
          /\ \A n \in Names : tpc[n] = "unstarted" /\ gen[n] = "none"
          /\ panels = <<>> /\ final_panels = <<>>
    /\ pc = "exited" => providers = <<>>

\* The session has failed with the no-providers error.
C6_Witness == pc = "exited" /\ exit_code = "1" /\ providers = <<>>

\* C7: a done flag that is True stays True, and the text of a provider whose
\* flag is True, or whose error text has been stored, is not written again.
DoneIsFinalStep ==
    \A n \in DOMAIN provider_done :
        /\ provider_done[n] =>
              provider_done'[n] /\ provider_contents'[n] = provider_contents[n]
        /\ Failed(n) => provider_contents'[n] = provider_contents[n]

C7_DoneIsFinal == [][DoneIsFinalStep]_vars

\* One provider is done while a sibling is in the middle of its += and
\* another has stored its error text.
C7_Witness ==
    \E a \in DOMAIN provider_done, b, c \in ProviderNames :
        /\ provider_done[a]
        /\ tpc[b] = "store"
        /\ tpc[c] = "except_done"

\* What a read of provider n's entry may observe: a whole-chunk prefix of what
\* its stream has yielded, or its error text.
Observable(n, text) ==
    \/ IsPrefixText(n, text)
    \/ Failed(n) /\ text = "Error: " \o exc[n]

\* C8: at every instant each provider's entry, and so the content of every
\* panel built from a read of it, is a whole-chunk prefix of its stream or its
\* error text; and whenever a thread is between two += no chunk it received
\* is missing.
C8_ReadsSeeWholeChunks ==
    /\ \A n \in DOMAIN provider_contents :
          /\ Observable(n, provider_contents[n])
          /\ (tpc[n] = "for_next" /\ gen[n] = "streaming") =>
                provider_contents[n] = Concat(Yielded(n))
    /\ \A i \in 1..Len(panels) : Observable(panels[i].name, panels[i].content)
    /\ \A i \in 1..Len(final_panels) :
          Observable(final_panels[i].name, final_panels[i].content)

\* update_display has just read the entry of a provider whose thread is in the
\* middle of appending its second chunk: the panel shows the first chunk.
C8_Witness ==
    /\ pc = "update_display"
    /\ panels # <<>>
    /\ LET p == panels[Len(panels)] IN
          /\ tpc[p.name] = "store"
          /\ sent[p.name] = 2
          /\ p.content = ChunkAt(script[p.name], 1)
          /\ p.status = "Generating..."

\* What the dicts expose of provider n, and the condition n is in.
View(n) == <<provider_contents[n], provider_done[n]>>
Condition(n) ==
    IF ~provider_done[n] THEN "streaming"
    ELSE IF Failed(n) THEN "failed" ELSE "succeeded"

\* C9: two providers of which the dicts expose the same are in the same
\* condition (still streaming, completed successfully, completed with an
\* error): the exposed state tells the three conditions apart.
C9_ConditionsTellApart ==
    \A a, b \in DOMAIN provider_done : View(a) = View(b) => Condition(a) = Condition(b)

\* C10: with every stream finite and the threads scheduled fairly, a session
\* with providers reaches the final display with every provider done.
C10_EventuallyReturns ==
    (providers # <<>>) ~>
        (/\ pc = "returned"
         /\ Len(final_panels) = Len(providers)
         /\ \A n \in ProviderNames : provider_done[n])

\* The final display is reached after every stream ran to MaxChunks chunks,
\* one of them then failing.
C10_Witness ==
    /\ pc = "returned"
    /\ Len(providers) = 3
    /\ \A n \in ProviderNames : sent[n] = MaxChunks
    /\ \E n \in ProviderNames : Failed(n)
    /\ \E n \in ProviderNames : ~Failed(n)


\* C11: once cancellation has been asked with A done and B, C streaming, A's
\* text stays as it is, B and C take no further chunk and do not end normally,
\* and when the join has returned B and C are failed with a cancellation
\* marker (an error text that is neither a vendor failure nor the missing
\* model).
CancelRaised == cancel # <<>>
CancelledUnits == IF CancelRaised THEN cancel[1] ELSE {}
IsCancelled(n) ==
    /\ Failed(n)
    /\ exc[n] \notin TransportMsgs \cup {NoModelMsg}
    /\ provider_done[n]
    /\ provider_contents[n] = "Error: " \o exc[n]
AfterCancelStep ==
    (CancelRaised /\ cancel' = cancel) =>
        /\ \A n \in DOMAIN provider_contents :
              provider_done[n] => provider_contents'[n] = provider_contents[n]
        /\ \A n \in CancelledUnits :
              /\ sent'[n] = sent[n]
              /\ ~(tpc'[n] = "exited" /\ exc'[n] = None)
C11_CancelAbortsStreaming ==
    /\ [][AfterCancelStep]_vars
    /\ [](JoinReturned /\ CancelRaised => \A n \in CancelledUnits : IsCancelled(n))

\* C12: the live view follows the streams: the frame Live rendered last, when
\* the join had returned and every provider was done, shows every provider as
\* done with the text accumulated for it.
C12_LiveViewFollowsStreams ==
    pc = "returned" =>
        /\ Len(live) = Len(providers)
        /\ \A i \in 1..Len(live) :
              /\ live[i].content = provider_contents[live[i].name]
              /\ live[i].status = StatusText(provider_done[live[i].name])

\* C13: the masked key has the length of the key; for a key of more than 12
\* characters it shows the key's first four and last four characters and '*'
\* at every other position; for a key of 12 characters or fewer every position
\* is '*'.
C13_MaskHidesKey ==
    pc = "info_displayed" =>
        /\ Len(masked) = Len(api_key)
        /\ \A i \in 1..Len(masked) :
              masked[i] = IF Len(api_key) > 12 /\ (i <= 4 \/ i > Len(api_key) - 4)
                          THEN api_key[i]
                          ELSE "*"

\* A 13-character key has been masked: its ends are shown, its middle is not.
C13_Witness ==
    /\ pc = "info_displayed"
    /\ Len(api_key) = 13
    /\ api_key[1] = "s" /\ api_key[5] = "k" /\ api_key[13] = "k"
    /\ masked[1] = "s" /\ masked[5] = "*" /\ masked[13] = "k"
====
